---- MODULE Spec2Model ----
(***************************************************************************)
(* Model of fetch_images.py: main() fetches the item record of a pid,      *)
(* extracts the (pid, order) pairs of its children and downloads one       *)
(* image per pair into the output directory.  One run of the script is a   *)
(* sequence of the actions ParseArgs, FetchParentData, GetChildPids and    *)
(* DownloadImagesForChildren (one loop iteration per step); Rerun starts   *)
(* the script again over the same output directory.                        *)
(***************************************************************************)
EXTENDS Integers, Sequences, FiniteSets, TLC

VARIABLES
    run,        \* number of the current invocation of the script
    pc,         \* position of main: "args", "fetch", "extract", "download", "exited"
    args_pid,   \* args.pid, a sequence of characters
    dir_made,   \* the output directory exists
    fs,         \* files of the output directory: path -> content
    fs0,        \* fs when the current run started
    data,       \* the value fetch_parent_data returned
    child_pids, \* the list get_child_pids returned
    i,          \* index of the pair the loop of download_images_for_children is at
    exit_code,  \* exit code of the process, NoExit while it runs
    stderr,     \* lines this run wrote to standard error
    stdout,     \* lines this run wrote to standard output
    requests,   \* HTTP requests this run issued, in order
    attempts,   \* invocations of download_image in this run, in order
    error       \* the exception that ended this run and the function that raised it

vars == <<run, pc, args_pid, dir_made, fs, fs0, data, child_pids, i,
          exit_code, stderr, stdout, requests, attempts, error>>

-----------------------------------------------------------------------------
(* Bounds *)

MaxChildren == 2    \* longest hasPart list of a record served to the pipeline
MaxRuns == 2        \* invocations of the script over the same output directory
MaxHasPart == 3     \* longest hasPart list the extraction alone is applied to

-----------------------------------------------------------------------------
(* JSON values as Python sees them *)

JNull == [t |-> "null"]
JInt(n) == [t |-> "int", v |-> n]
JStr(s) == [t |-> "str", v |-> s]
JList(s) == [t |-> "list", v |-> s]
JObj(f) == [t |-> "obj", v |-> f]

EmptyDict == JObj(<<>>)

\* variant: the tests `not x` written as `x is None`
Truthy_NotNone(x) == x.t # "null"

\* Python truth value of a JSON value
Truthy(x) ==
    CASE x.t = "null" -> FALSE
      [] x.t = "int"  -> x.v # 0
      [] x.t = "str"  -> x.v # ""
      [] x.t = "list" -> x.v # <<>>
      [] x.t = "obj"  -> DOMAIN x.v # {}

\* dict.get(key): the value, None when the key is absent
DictGet(d, key) == IF key \in DOMAIN d.v THEN d.v[key] ELSE JNull

NoExit == -1
NoError == [type |-> "none"]

-----------------------------------------------------------------------------
(* Exceptions and log lines *)

HTTPError(code) == [type |-> "HTTPError", code |-> code]
URLError == [type |-> "URLError"]
JSONDecodeError == [type |-> "JSONDecodeError"]
UnicodeDecodeError == [type |-> "UnicodeDecodeError"]
ValueError(msg) == [type |-> "ValueError", msg |-> msg]
OSError(what) == [type |-> "OSError", what |-> what]

\* a line printed by function `by`
Line(by, msg, about) == [by |-> by, msg |-> msg, about |-> about]

-----------------------------------------------------------------------------
(* Inputs *)

Absent == [t |-> "absent"]      \* marks a key that a dict does not have

SeqsUpTo(S, n) == UNION {[1..k -> S] : k \in 0..n}

\* a child descriptor; a field that is Absent is left out of the dict
Child(p, o) ==
    JObj([k \in {x \in {"pid", "order"} :
                    \/ x = "pid" /\ p # Absent
                    \/ x = "order" /\ o # Absent}
            |-> IF k = "pid" THEN p ELSE o])

\* a `relations` dict; hasPart Absent gives a dict with another key only
Relations(hp) ==
    JObj(IF hp = Absent
         THEN [k \in {"isMemberOf"} |-> JList(<<>>)]
         ELSE [k \in {"hasPart"} |-> hp])

\* an item record; relations Absent gives a dict without that key
Item(rel) ==
    JObj(IF rel = Absent
         THEN [k \in {"pid"} |-> JStr("bdr:1")]
         ELSE [k \in {"pid", "relations"} |->
                  IF k = "pid" THEN JStr("bdr:1") ELSE rel])

\* every item record whose hasPart, when it is a list, is one of `lists`
Items(lists) ==
    {Item(rel) : rel \in {Absent, JNull, EmptyDict}
                     \cup {Relations(hp) : hp \in {Absent, JNull}
                              \cup {JList(s) : s \in lists}}}

\* records the metadata endpoint serves to the pipeline
PipelineChildren ==
    {Child(p, o) : p \in {JNull, JStr("a:1"), JStr("a:2")},
                   o \in {Absent, JInt(1), JInt(23)}}
PipelineItems == Items(SeqsUpTo(PipelineChildren, MaxChildren))

\* records the extraction alone is applied to
ExtractChildren ==
    {Child(p, o) : p \in {Absent, JStr(""), JStr("a:1"), JStr("a:2"), JStr("a:3")},
                   o \in {Absent, JNull, JInt(0), JInt(1), JInt(2)}}
ExtractItems == Items(SeqsUpTo(ExtractChildren, MaxHasPart))

\* what the metadata endpoint can answer
Responses ==
    {[status |-> 0]}                                  \* no connection
    \cup {[status |-> c] : c \in {404, 500}}
    \cup {[status |-> 200, body |-> b] : b \in {"invalid-utf8", "invalid-json"}}
    \cup {[status |-> 200, body |-> "json", value |-> v] : v \in PipelineItems}

\* the pid argument of the command line
PidArgs == {<<>>, <<" ">>, <<"b">>}

\* how one download of an image that is not on disk can go
Outcomes == {"ok", "urlopen-fails", "open-fails", "read-fails", "write-fails"}

OutputDir == <<"o", "u", "t">>

-----------------------------------------------------------------------------
(* fetch_parent_data *)

ItemUrl(pid) == [endpoint |-> "api/items", pid |-> pid]

\* variant: the except clause of HTTPError re-raises without printing
fetch_parent_data_SilentHttp(pid, response) ==
    CASE response.status = 0 ->
            [exc |-> URLError, ret |-> JNull,
             err |-> <<Line("fetch_parent_data", "URL Error", URLError)>>]
      [] response.status \notin {0, 200} ->
            [exc |-> HTTPError(response.status), ret |-> JNull, err |-> <<>>]
      [] response.status = 200 /\ response.body = "invalid-utf8" ->
            [exc |-> UnicodeDecodeError, ret |-> JNull, err |-> <<>>]
      [] response.status = 200 /\ response.body = "invalid-json" ->
            [exc |-> JSONDecodeError, ret |-> JNull,
             err |-> <<Line("fetch_parent_data", "JSON Decode Error",
                            JSONDecodeError)>>]
      [] response.status = 200 /\ response.body = "json" ->
            [exc |-> NoError, ret |-> response.value, err |-> <<>>]

\* the call's result: the exception raised (NoError if none), the value
\* returned and the lines written to standard error
fetch_parent_data(pid, response) ==
    CASE response.status = 0 ->
            [exc |-> URLError, ret |-> JNull,
             err |-> <<Line("fetch_parent_data", "URL Error", URLError)>>]
      [] response.status \notin {0, 200} ->
            [exc |-> HTTPError(response.status), ret |-> JNull,
             err |-> <<Line("fetch_parent_data", "HTTP Error",
                            HTTPError(response.status))>>]
      [] response.status = 200 /\ response.body = "invalid-utf8" ->
            [exc |-> UnicodeDecodeError, ret |-> JNull, err |-> <<>>]
      [] response.status = 200 /\ response.body = "invalid-json" ->
            [exc |-> JSONDecodeError, ret |-> JNull,
             err |-> <<Line("fetch_parent_data", "JSON Decode Error",
                            JSONDecodeError)>>]
      [] response.status = 200 /\ response.body = "json" ->
            [exc |-> NoError, ret |-> response.value, err |-> <<>>]

-----------------------------------------------------------------------------
(* get_child_pids *)

\* variant: the order is tested for truth, which drops order 0
IsValidChild_TruthyOrder(child) ==
    Truthy(DictGet(child, "pid")) /\ Truthy(DictGet(child, "order"))

IsValidChild(child) ==
    Truthy(DictGet(child, "pid")) /\ DictGet(child, "order") # JNull

\* the call's result: the exception raised (NoError if none), the list
\* returned and the lines written to standard output
get_child_pids(parent_data) ==
    LET relations == DictGet(parent_data, "relations") IN
    IF ~Truthy(relations)
    THEN [exc |-> ValueError("No relations found in parent data."),
          ret |-> <<>>, out |-> <<>>]
    ELSE
    LET children == DictGet(relations, "hasPart") IN
    IF ~Truthy(children)
    THEN [exc |-> ValueError("No child items found in parent data."),
          ret |-> <<>>, out |-> <<>>]
    ELSE
    LET kept == SelectSeq(children.v, IsValidChild)
        child_pids_and_pages ==
            [k \in 1..Len(kept) |->
                <<DictGet(kept[k], "pid"), DictGet(kept[k], "order")>>]
    IN
    IF Len(child_pids_and_pages) = 0
    THEN [exc |-> ValueError("No valid child PIDs found."),
          ret |-> <<>>, out |-> <<>>]
    ELSE [exc |-> NoError, ret |-> child_pids_and_pages,
          out |-> <<Line("get_child_pids", "Found child PIDs",
                         Len(child_pids_and_pages))>>]

-----------------------------------------------------------------------------
(* Strings, as sequences of characters *)

Whitespace == {" ", "\t", "\n"}

\* str.strip()
RECURSIVE lstrip(_)
lstrip(s) ==
    IF s # <<>> /\ Head(s) \in Whitespace THEN lstrip(Tail(s)) ELSE s
RECURSIVE rstrip(_)
rstrip(s) ==
    IF s # <<>> /\ s[Len(s)] \in Whitespace
    THEN rstrip(SubSeq(s, 1, Len(s) - 1)) ELSE s
\* variant: the argument is tested without strip()
strip_Identity(s) == s

strip(s) == rstrip(lstrip(s))

DigitChar == <<"0", "1", "2", "3", "4", "5", "6", "7", "8", "9">>

RECURSIVE Digits(_)
Digits(n) ==
    IF n < 10 THEN <<DigitChar[n + 1]>>
    ELSE Digits(n \div 10) \o <<DigitChar[(n % 10) + 1]>>

\* str() of an integer
Str(n) == IF n < 0 THEN <<"-">> \o Digits(-n) ELSE Digits(n)

Zeros(n) == [k \in 1..n |-> "0"]

\* variant: the zeros are appended, as str.ljust(width, "0") does
zfill_RightPad(s, width) ==
    IF Len(s) >= width THEN s ELSE s \o Zeros(width - Len(s))

\* str.zfill(width): zeros go after a leading sign
zfill(s, width) ==
    IF Len(s) >= width THEN s
    ELSE IF s # <<>> /\ Head(s) \in {"+", "-"}
         THEN <<Head(s)>> \o Zeros(width - Len(s)) \o Tail(s)
         ELSE Zeros(width - Len(s)) \o s

-----------------------------------------------------------------------------
(* download_image *)

ImageUrl(pid) == [endpoint |-> "iiif/image", pid |-> pid]

OutputPath(output_dir, page) ==
    output_dir \o <<"/">> \o page \o <<".", "j", "p", "g">>

\* variant: the existence check is missing
path_exists_Never(path, files) == FALSE

\* variant: only a complete file counts as existing
path_exists_OnlyComplete(path, files) ==
    path \in DOMAIN files /\ files[path] = "complete"

\* os.path.exists(path) on the directory content `files`
path_exists(path, files) == path \in DOMAIN files

\* open(path, 'wb') and what was written before the file was closed
Write(files, path, content) ==
    [p \in DOMAIN files \cup {path} |-> IF p = path THEN content ELSE files[p]]

\* variant: a failed download removes the file it opened
download_image_Cleanup(image_url, output_path, outcome, files) ==
    IF path_exists(output_path, files)
    THEN [exc |-> NoError, files |-> files, req |-> <<>>,
          out |-> <<Line("download_image", "Image already exists, skipping download.",
                         output_path)>>,
          err |-> <<>>]
    ELSE
    LET failed == <<Line("download_image", "Failed to download image", image_url)>> IN
    CASE outcome = "ok" ->
            [exc |-> NoError, files |-> Write(files, output_path, "complete"),
             req |-> <<image_url>>, out |-> <<>>, err |-> <<>>]
      [] outcome = "urlopen-fails" ->
            [exc |-> URLError, files |-> files,
             req |-> <<image_url>>, out |-> <<>>, err |-> failed]
      [] outcome = "open-fails" ->
            [exc |-> OSError("open"), files |-> files,
             req |-> <<image_url>>, out |-> <<>>, err |-> failed]
      [] outcome = "read-fails" ->
            [exc |-> OSError("read"), files |-> files,
             req |-> <<image_url>>, out |-> <<>>, err |-> failed]
      [] outcome = "write-fails" ->
            [exc |-> OSError("write"), files |-> files,
             req |-> <<image_url>>, out |-> <<>>, err |-> failed]

\* the call's result on the directory content `files`: the exception raised
\* (NoError if none), the directory content afterwards, the requests issued
\* and the lines written to standard output and standard error
download_image(image_url, output_path, outcome, files) ==
    IF path_exists(output_path, files)
    THEN [exc |-> NoError, files |-> files, req |-> <<>>,
          out |-> <<Line("download_image", "Image already exists, skipping download.",
                         output_path)>>,
          err |-> <<>>]
    ELSE
    LET failed == <<Line("download_image", "Failed to download image", image_url)>> IN
    CASE outcome = "ok" ->
            [exc |-> NoError, files |-> Write(files, output_path, "complete"),
             req |-> <<image_url>>, out |-> <<>>, err |-> <<>>]
      [] outcome = "urlopen-fails" ->
            [exc |-> URLError, files |-> files,
             req |-> <<image_url>>, out |-> <<>>, err |-> failed]
      [] outcome = "open-fails" ->
            [exc |-> OSError("open"), files |-> files,
             req |-> <<image_url>>, out |-> <<>>, err |-> failed]
      [] outcome = "read-fails" ->
            [exc |-> OSError("read"), files |-> Write(files, output_path, "empty"),
             req |-> <<image_url>>, out |-> <<>>, err |-> failed]
      [] outcome = "write-fails" ->
            [exc |-> OSError("write"), files |-> Write(files, output_path, "truncated"),
             req |-> <<image_url>>, out |-> <<>>, err |-> failed]

-----------------------------------------------------------------------------
(* main *)

Init ==
    /\ run = 1
    /\ pc = "args"
    /\ args_pid \in PidArgs
    /\ dir_made = FALSE
    /\ fs = <<>>
    /\ fs0 = <<>>
    /\ data = JNull
    /\ child_pids = <<>>
    /\ i = 1
    /\ exit_code = NoExit
    /\ stderr = <<>>
    /\ stdout = <<>>
    /\ requests = <<>>
    /\ attempts = <<>>
    /\ error = NoError

\* variant: the except clause prints the error and falls through, main returns
Fail_ExitZero(exc, raised_in, lines) ==
    /\ stderr' = stderr \o lines \o <<Line("main", "Error", exc)>>
    /\ error' = [exc |-> exc, raised_in |-> raised_in]
    /\ exit_code' = 0
    /\ pc' = "exited"

\* the except clause of main: print the error and sys.exit(1)
Fail(exc, raised_in, lines) ==
    /\ stderr' = stderr \o lines \o <<Line("main", "Error", exc)>>
    /\ error' = [exc |-> exc, raised_in |-> raised_in]
    /\ exit_code' = 1
    /\ pc' = "exited"

\* main up to the try block: the empty-pid check and output_dir.mkdir
ParseArgs ==
    /\ pc = "args"
    /\ IF strip(args_pid) = <<>>
       THEN /\ stderr' = Append(stderr, Line("main", "Error: PID cannot be empty.", args_pid))
            /\ exit_code' = 1
            /\ pc' = "exited"
            /\ UNCHANGED <<dir_made, error>>
       ELSE \E made \in BOOLEAN :
            IF dir_made \/ made
            THEN /\ dir_made' = TRUE
                 /\ pc' = "fetch"
                 /\ UNCHANGED <<stderr, exit_code, error>>
            ELSE \* mkdir raises outside the try block: traceback, exit code 1
                 /\ stderr' = Append(stderr, Line("python", "Traceback", OSError("mkdir")))
                 /\ error' = [exc |-> OSError("mkdir"), raised_in |-> "main"]
                 /\ exit_code' = 1
                 /\ pc' = "exited"
                 /\ UNCHANGED dir_made
    /\ UNCHANGED <<run, args_pid, fs, fs0, data, child_pids, i, stdout, requests, attempts>>

\* data = fetch_parent_data(args.pid)
FetchParentData ==
    /\ pc = "fetch"
    /\ \E response \in Responses :
         LET r == fetch_parent_data(args_pid, response) IN
         /\ requests' = Append(requests, ItemUrl(args_pid))
         /\ IF r.exc = NoError
            THEN /\ data' = r.ret
                 /\ pc' = "extract"
                 /\ UNCHANGED <<stderr, error, exit_code>>
            ELSE /\ Fail(r.exc, "fetch_parent_data", r.err)
                 /\ UNCHANGED data
    /\ UNCHANGED <<run, args_pid, dir_made, fs, fs0, child_pids, i, stdout, attempts>>

\* child_pids = get_child_pids(data)
GetChildPids ==
    /\ pc = "extract"
    /\ LET r == get_child_pids(data) IN
         IF r.exc = NoError
         THEN /\ child_pids' = r.ret
              /\ stdout' = stdout \o r.out
              /\ IF r.ret = <<>>      \* the loop has nothing to do, main returns
                 THEN pc' = "exited" /\ exit_code' = 0
                 ELSE pc' = "download" /\ UNCHANGED exit_code
              /\ UNCHANGED <<stderr, error>>
         ELSE /\ Fail(r.exc, "get_child_pids", <<>>)
              /\ UNCHANGED <<child_pids, stdout>>
    /\ UNCHANGED <<run, args_pid, dir_made, fs, fs0, data, i, requests, attempts>>

\* variant: the except clause of the loop logs the error and goes on
DownloadImagesForChildren_ContinueOnError ==
    /\ pc = "download"
    /\ i <= Len(child_pids)
    /\ \E outcome \in Outcomes :
         LET pid == child_pids[i][1]
             page == zfill(Str(child_pids[i][2].v), 4)
             image_url == ImageUrl(pid)
             output_path == OutputPath(OutputDir, page)
             r == download_image(image_url, output_path, outcome, fs)
         IN
         /\ attempts' = Append(attempts, [pid |-> pid, order |-> child_pids[i][2],
                                          url |-> image_url, path |-> output_path,
                                          existed |-> output_path \in DOMAIN fs,
                                          req |-> r.req, exc |-> r.exc])
         /\ fs' = r.files
         /\ requests' = requests \o r.req
         /\ stdout' = stdout \o r.out
         /\ i' = i + 1
         /\ IF i = Len(child_pids)
            THEN pc' = "exited" /\ exit_code' = 0
            ELSE UNCHANGED <<pc, exit_code>>
         /\ IF r.exc = NoError
            THEN UNCHANGED stderr
            ELSE stderr' = stderr \o r.err
                              \o <<Line("download_images_for_children",
                                        "Error processing PID", pid)>>
         /\ UNCHANGED error
    /\ UNCHANGED <<run, args_pid, dir_made, fs0, data, child_pids>>

\* one iteration of the loop of download_images_for_children; the return of
\* main after the last pair
DownloadImagesForChildren ==
    /\ pc = "download"
    /\ i <= Len(child_pids)
    /\ \E outcome \in Outcomes :
         LET pid == child_pids[i][1]
             page == zfill(Str(child_pids[i][2].v), 4)
             image_url == ImageUrl(pid)
             output_path == OutputPath(OutputDir, page)
             r == download_image(image_url, output_path, outcome, fs)
         IN
         /\ attempts' = Append(attempts, [pid |-> pid, order |-> child_pids[i][2],
                                          url |-> image_url, path |-> output_path,
                                          existed |-> output_path \in DOMAIN fs,
                                          req |-> r.req, exc |-> r.exc])
         /\ fs' = r.files
         /\ requests' = requests \o r.req
         /\ stdout' = stdout \o r.out
         /\ IF r.exc = NoError
            THEN /\ i' = i + 1
                 /\ IF i = Len(child_pids)
                    THEN pc' = "exited" /\ exit_code' = 0
                    ELSE UNCHANGED <<pc, exit_code>>
                 /\ UNCHANGED <<stderr, error>>
            ELSE /\ Fail(r.exc, "download_image",
                         r.err \o <<Line("download_images_for_children",
                                         "Error processing PID", pid)>>)
                 /\ UNCHANGED i
    /\ UNCHANGED <<run, args_pid, dir_made, fs0, data, child_pids>>

\* the script is started again with the same output directory
Rerun ==
    /\ pc = "exited"
    /\ run < MaxRuns
    /\ run' = run + 1
    /\ pc' = "args"
    /\ args_pid' \in PidArgs
    /\ fs0' = fs
    /\ data' = JNull
    /\ child_pids' = <<>>
    /\ i' = 1
    /\ exit_code' = NoExit
    /\ stderr' = <<>>
    /\ stdout' = <<>>
    /\ requests' = <<>>
    /\ attempts' = <<>>
    /\ error' = NoError
    /\ UNCHANGED <<dir_made, fs>>

Next ==
    \/ ParseArgs
    \/ FetchParentData
    \/ GetChildPids
    \/ DownloadImagesForChildren
    \/ Rerun

Spec == Init /\ [][Next]_vars

\* the extraction alone, applied to every record of ExtractItems
InitExtract ==
    /\ run = 1
    /\ pc = "extract"
    /\ args_pid = <<"b">>
    /\ dir_made = TRUE
    /\ fs = <<>>
    /\ fs0 = <<>>
    /\ data \in ExtractItems
    /\ child_pids = <<>>
    /\ i = 1
    /\ exit_code = NoExit
    /\ stderr = <<>>
    /\ stdout = <<>>
    /\ requests = <<ItemUrl(<<"b">>)>>
    /\ attempts = <<>>
    /\ error = NoError

SpecExtract == InitExtract /\ [][GetChildPids]_vars

-----------------------------------------------------------------------------
(* Vocabulary of the properties *)

ImageRequests == SelectSeq(requests, LAMBDA q : q.endpoint = "iiif/image")
MetadataRequests == SelectSeq(requests, LAMBDA q : q.endpoint = "api/items")

\* get_child_pids has been applied to `data` in this run
Extracted == data # JNull /\ pc \in {"download", "exited"}

\* no download was attempted in this run
NoDownload == attempts = <<>> /\ ImageRequests = <<>> /\ fs = fs0

RaisedBy(f, exc) == error = [exc |-> exc, raised_in |-> f]

\* the three ways a record has no usable children
LacksRelations(d) ==
    \/ "relations" \notin DOMAIN d.v
    \/ d.v["relations"] \in {JNull, EmptyDict}
LacksHasPart(d) ==
    /\ ~LacksRelations(d)
    /\ \/ "hasPart" \notin DOMAIN d.v["relations"].v
       \/ d.v["relations"].v["hasPart"] \in {JNull, JList(<<>>)}
LacksPid(c) == "pid" \notin DOMAIN c.v \/ c.v["pid"] = JNull
NullOrder(c) == "order" \notin DOMAIN c.v \/ c.v["order"] = JNull
HasPart(d) == d.v["relations"].v["hasPart"].v
OnlyInvalidChildren(d) ==
    /\ ~LacksRelations(d)
    /\ ~LacksHasPart(d)
    /\ \A k \in 1..Len(HasPart(d)) : LacksPid(HasPart(d)[k]) \/ NullOrder(HasPart(d)[k])

-----------------------------------------------------------------------------
\* C1: a record without a non-empty relations, without a non-empty hasPart,
\* or whose hasPart entries all lack a pid or have a null order makes
\* get_child_pids raise the validation error of that case, and the run of
\* main attempts no download: download_image is not invoked, no image
\* request is issued and no file is written.
C1_ValidationStopsBeforeDownload ==
    Extracted =>
        /\ LacksRelations(data) =>
              /\ RaisedBy("get_child_pids", ValueError("No relations found in parent data."))
              /\ NoDownload /\ pc = "exited" /\ exit_code = 1
        /\ LacksHasPart(data) =>
              /\ RaisedBy("get_child_pids", ValueError("No child items found in parent data."))
              /\ NoDownload /\ pc = "exited" /\ exit_code = 1
        /\ OnlyInvalidChildren(data) =>
              /\ RaisedBy("get_child_pids", ValueError("No valid child PIDs found."))
              /\ NoDownload /\ pc = "exited" /\ exit_code = 1

\* a run that ended on a record whose two children are both invalid
C1_Witness ==
    /\ Extracted
    /\ OnlyInvalidChildren(data)
    /\ Len(HasPart(data)) = 2
    /\ RaisedBy("get_child_pids", ValueError("No valid child PIDs found."))
    /\ NoDownload

-----------------------------------------------------------------------------
\* the last attempt of this run raised
DownloadFailed ==
    attempts # <<>> /\ attempts[Len(attempts)].exc # NoError

\* C2: once the download of a pair fails, no later pair is processed in that
\* run: the failing attempt is the last one, it is not retried, no further
\* image request is issued and no further file is created, and the run ends
\* with exit code 1.
C2_FirstFailureAborts ==
    /\ [](\A k \in 1..Len(attempts) :
             attempts[k].exc # NoError =>
                 /\ k = Len(attempts)
                 /\ pc = "exited"
                 /\ exit_code = 1
                 /\ Len(ImageRequests) = Cardinality({j \in 1..k : attempts[j].req # <<>>}))
    /\ [][DownloadFailed /\ run' = run =>
             /\ attempts' = attempts
             /\ requests' = requests
             /\ fs' = fs
             /\ exit_code' = 1]_vars

\* the first of two pairs failed and the second was never attempted
C2_Witness ==
    /\ DownloadFailed
    /\ Len(child_pids) = 2
    /\ Len(attempts) = 1
    /\ Len(ImageRequests) = 1
    /\ exit_code = 1

-----------------------------------------------------------------------------
\* C3: in a second run over the same output directory, every child whose
\* destination file existed when the run started is skipped without an image
\* request and counts as a success, and the files that existed are unchanged.
C3_SecondRunSkipsExisting ==
    run >= 2 =>
        /\ \A k \in 1..Len(attempts) :
              attempts[k].path \in DOMAIN fs0 =>
                  /\ attempts[k].req = <<>>
                  /\ attempts[k].exc = NoError
        /\ \A p \in DOMAIN fs0 : p \in DOMAIN fs /\ fs[p] = fs0[p]
        /\ Len(ImageRequests) =
              Cardinality({k \in 1..Len(attempts) : attempts[k].path \notin DOMAIN fs0
                                                     /\ attempts[k].req # <<>>})

\* a second run that found both its files on disk and finished with exit code 0
C3_Witness ==
    /\ run = 2
    /\ Len(attempts) = 2
    /\ \A k \in 1..2 : attempts[k].path \in DOMAIN fs0
    /\ attempts[1].path # attempts[2].path
    /\ ImageRequests = <<>>
    /\ exit_code = 0

-----------------------------------------------------------------------------
\* a non-negative order below 10000 written with exactly four decimal digits
Pad4(n) ==
    <<DigitChar[((n \div 1000) % 10) + 1], DigitChar[((n \div 100) % 10) + 1],
      DigitChar[((n \div 10) % 10) + 1], DigitChar[(n % 10) + 1]>>

ExpectedPath(order) ==
    <<"o", "u", "t", "/">> \o Pad4(order.v) \o <<".", "j", "p", "g">>

\* attempt k is the download of pair k, into the file named after its order
AttemptsFollowList ==
    \A k \in 1..Len(attempts) :
        /\ k <= Len(child_pids)
        /\ attempts[k].pid = child_pids[k][1]
        /\ attempts[k].url = ImageUrl(child_pids[k][1])
        /\ attempts[k].path = ExpectedPath(child_pids[k][2])

\* C4 as stated: for every valid child list the number of download attempts
\* equals the number of filtered pairs, the attempts are made in list order
\* and each goes to <output_dir>/<order padded to 4 digits>.jpg.
C4_AttemptPerPair ==
    (pc = "exited" /\ child_pids # <<>>) =>
        /\ Len(attempts) = Len(child_pids)
        /\ AttemptsFollowList

\* C4 amended: the attempts are made in list order, one per pair, each to
\* <output_dir>/<order padded to 4 digits>.jpg, up to and including the first
\* pair whose download raises; their number equals the number of filtered
\* pairs when no attempt raises.
C4_AttemptPerPairUntilFailure ==
    /\ AttemptsFollowList
    /\ pc = "download" => Len(attempts) = i - 1 /\ ~DownloadFailed
    /\ (pc = "exited" /\ child_pids # <<>>) =>
          IF DownloadFailed
          THEN \A k \in 1..(Len(attempts) - 1) : attempts[k].exc = NoError
          ELSE Len(attempts) = Len(child_pids)

\* orders 1 and 23 were downloaded to 0001.jpg and 0023.jpg
C4_Witness ==
    /\ pc = "exited"
    /\ exit_code = 0
    /\ Len(attempts) = 2
    /\ child_pids[1][2] = JInt(1)
    /\ child_pids[2][2] = JInt(23)
    /\ attempts[1].path = <<"o", "u", "t", "/", "0", "0", "0", "1", ".", "j", "p", "g">>
    /\ attempts[2].path = <<"o", "u", "t", "/", "0", "0", "2", "3", ".", "j", "p", "g">>

-----------------------------------------------------------------------------
HasList(d) == ~LacksRelations(d) /\ ~LacksHasPart(d)

PairOf(c) == <<c.v["pid"], c.v["order"]>>

\* the pairs of the entries that have a pid and a non-null order
RECURSIVE PairsWithPidAndOrder(_)
PairsWithPidAndOrder(s) ==
    IF s = <<>> THEN <<>>
    ELSE (IF ~LacksPid(Head(s)) /\ ~NullOrder(Head(s)) THEN <<PairOf(Head(s))>> ELSE <<>>)
         \o PairsWithPidAndOrder(Tail(s))

\* the pairs of the entries that have a non-empty pid and a non-null order
RECURSIVE PairsWithNonEmptyPidAndOrder(_)
PairsWithNonEmptyPidAndOrder(s) ==
    IF s = <<>> THEN <<>>
    ELSE (IF ~LacksPid(Head(s)) /\ Head(s).v["pid"] # JStr("") /\ ~NullOrder(Head(s))
          THEN <<PairOf(Head(s))>> ELSE <<>>)
         \o PairsWithNonEmptyPidAndOrder(Tail(s))

Returned(pairs) ==
    /\ error = NoError
    /\ child_pids = pairs
    /\ stdout = <<Line("get_child_pids", "Found child PIDs", Len(pairs))>>

\* C5 as stated: for a record whose hasPart has at least one entry with a pid
\* and a non-null order, get_child_pids returns exactly the pairs of the
\* entries that have a pid and a non-null order, in hasPart order, and
\* reports their number.
C5_ReturnsEntriesWithPidAndOrder ==
    (Extracted /\ HasList(data) /\ PairsWithPidAndOrder(HasPart(data)) # <<>>) =>
        Returned(PairsWithPidAndOrder(HasPart(data)))

\* C5 amended: for a record whose hasPart has at least one entry with a
\* non-empty pid and a non-null order, get_child_pids returns exactly the
\* pairs of the entries that have a non-empty pid and a non-null order, in
\* hasPart order, and reports their number.
C5_ReturnsEntriesWithNonEmptyPidAndOrder ==
    (Extracted /\ HasList(data) /\ PairsWithNonEmptyPidAndOrder(HasPart(data)) # <<>>) =>
        Returned(PairsWithNonEmptyPidAndOrder(HasPart(data)))

\* (a:1, 1), (a:2, null), (a:3, 2) gave [(a:1, 1), (a:3, 2)], count 2
C5_Witness ==
    /\ Extracted
    /\ HasList(data)
    /\ HasPart(data) = <<Child(JStr("a:1"), JInt(1)), Child(JStr("a:2"), JNull),
                         Child(JStr("a:3"), JInt(2))>>
    /\ child_pids = <<<<JStr("a:1"), JInt(1)>>, <<JStr("a:3"), JInt(2)>>>>
    /\ stdout = <<Line("get_child_pids", "Found child PIDs", 2)>>

-----------------------------------------------------------------------------
BlankPid == \A k \in 1..Len(args_pid) : args_pid[k] \in Whitespace

\* C6: with a pid argument that is empty or all whitespace, main prints
\* "Error: PID cannot be empty." and exits with code 1 before any other
\* effect: no request of any kind, no directory, no file, no other output.
C6_BlankPidExitsFirst ==
    (BlankPid /\ pc # "args") =>
        /\ pc = "exited"
        /\ exit_code = 1
        /\ stderr = <<Line("main", "Error: PID cannot be empty.", args_pid)>>
        /\ requests = <<>>
        /\ attempts = <<>>
        /\ stdout = <<>>
        /\ fs = fs0
        /\ run = 1 => ~dir_made

\* a first run with the pid " " ended with exit code 1 and no request
C6_Witness ==
    /\ run = 1
    /\ pc = "exited"
    /\ args_pid = <<" ">>
    /\ exit_code = 1
    /\ requests = <<>>
    /\ ~dir_made

-----------------------------------------------------------------------------
\* the metadata fetch, the extraction and every download or skip completed
StagesCompleted ==
    /\ Len(MetadataRequests) = 1
    /\ data # JNull
    /\ child_pids # <<>>
    /\ Len(attempts) = Len(child_pids)
    /\ \A k \in 1..Len(attempts) : attempts[k].exc = NoError

Stages == {"fetch_parent_data", "get_child_pids", "download_image"}

\* C7: a run with a non-empty pid ends with exit code 0 exactly when the
\* fetch, the extraction and every download or skip completed without
\* raising, and with exit code 1 when one of the stages raised, an HTTP 404
\* of the metadata endpoint included.
C7_ExitCode ==
    (pc = "exited" /\ ~BlankPid) =>
        /\ exit_code \in {0, 1}
        /\ exit_code = 0 <=> StagesCompleted /\ error = NoError
        /\ (error # NoError /\ error.raised_in \in Stages) => exit_code = 1
        /\ (data = JNull /\ requests # <<>>) => exit_code = 1
        /\ (data # JNull /\ child_pids = <<>>) => exit_code = 1
        /\ DownloadFailed => exit_code = 1

\* the metadata endpoint answered 404 and the run ended with exit code 1
C7_Witness ==
    /\ pc = "exited"
    /\ ~BlankPid
    /\ RaisedBy("fetch_parent_data", HTTPError(404))
    /\ exit_code = 1

-----------------------------------------------------------------------------
Taxonomy == {"URLError", "HTTPError", "JSONDecodeError", "ValueError", "OSError"}

\* the run ended on an error of the taxonomy raised in one of the stages
EndedOnError ==
    /\ pc = "exited"
    /\ error # NoError
    /\ error.raised_in \in Stages
    /\ error.exc.type \in Taxonomy

LoggedBy(f) == \E k \in 1..Len(stderr) : stderr[k].by = f

MainPrinted ==
    /\ stderr # <<>>
    /\ stderr[Len(stderr)] = Line("main", "Error", error.exc)
    /\ exit_code = 1

-----------------------------------------------------------------------------
Partial == {"empty", "truncated"}

\* C9: a download_image that fails after opening the destination leaves an
\* empty or truncated file there; a later run finds the file, skips the page
\* without an image request and counts it as a success, and no run ever
\* replaces the partial file.
C9_PartialFileIsKept ==
    /\ [](\A k \in 1..Len(attempts) :
             /\ attempts[k].exc \in {OSError("read"), OSError("write")} =>
                   /\ attempts[k].path \in DOMAIN fs
                   /\ fs[attempts[k].path] \in Partial
             /\ (attempts[k].path \in DOMAIN fs0 /\ fs0[attempts[k].path] \in Partial) =>
                   /\ attempts[k].req = <<>>
                   /\ attempts[k].exc = NoError
                   /\ fs[attempts[k].path] = fs0[attempts[k].path])
    /\ [][\A p \in DOMAIN fs :
             fs[p] \in Partial => p \in DOMAIN fs' /\ fs'[p] = fs[p]]_vars

\* a second run skipped a page whose file is truncated and ended with exit code 0
C9_Witness ==
    /\ run = 2
    /\ pc = "exited"
    /\ exit_code = 0
    /\ \E k \in 1..Len(attempts) :
          /\ attempts[k].path \in DOMAIN fs0
          /\ fs[attempts[k].path] = "truncated"
          /\ attempts[k].req = <<>>

-----------------------------------------------------------------------------
\* C10: within one run an image request is issued for a child only if no
\* file of its name exists at that moment; of several children whose orders
\* give the same name only the first is fetched (when the file was not there
\* before the run) and every later one is skipped without a request.
C10_OneRequestPerName ==
    /\ \A k \in 1..Len(attempts) :
          /\ attempts[k].req # <<>> => ~attempts[k].existed
          /\ attempts[k].existed => attempts[k].req = <<>> /\ attempts[k].exc = NoError
    /\ \A j, k \in 1..Len(attempts) :
          (j < k /\ attempts[j].path = attempts[k].path) =>
              /\ attempts[k].req = <<>>
              /\ attempts[k].exc = NoError
              /\ (attempts[j].path \notin DOMAIN fs0 /\ \A h \in 1..(j - 1) : attempts[h].path # attempts[j].path)
                    => attempts[j].req # <<>>
    /\ Len(ImageRequests) = Cardinality({k \in 1..Len(attempts) : attempts[k].req # <<>>})

\* a first run of two children of the same order: one request, one file, exit code 0
C10_Witness ==
    /\ run = 1
    /\ pc = "exited"
    /\ exit_code = 0
    /\ Len(child_pids) = 2
    /\ child_pids[1][1] # child_pids[2][1]
    /\ Len(attempts) = 2
    /\ attempts[1].path = attempts[2].path
    /\ Len(ImageRequests) = 1
    /\ Cardinality(DOMAIN fs) = 1

====
